---- MODULE Spec2Model ----
(***************************************************************************)
(* A model of supagres.py: the Table query builder, its terminal           *)
(* operations and RPC.call.                                                *)
(*                                                                         *)
(* Python values are records tagged with their type.  SQL text is a        *)
(* sequence of lexical tokens (strings); white space is not a token, so    *)
(* the empty sql.SQL('') parts that execute joins with ' ' leave no trace. *)
(* A psycopg2 placeholder, sql.Placeholder() or a literal %s inside an     *)
(* sql.SQL, is the token "%s".                                             *)
(***************************************************************************)
EXTENDS Integers, Sequences, FiniteSets, TLC

VARIABLES
    _filters,         \* Table._filters: list of (column, operator, value)
    _select_columns,  \* Table._select_columns: list of column names
    _order_by,        \* Table._order_by: list of (column, direction)
    _limit,           \* Table._limit: None or an int
    _offset,          \* Table._offset: None or an int
    last_call,        \* the method call made last, with its arguments
    sent,             \* what that call passed to cur.execute: <<>> or <<[query, params]>>
    reply,            \* what the driver answered to it
    result            \* how that call ended: a returned value or a raised exception

builder == <<_filters, _select_columns, _order_by, _limit, _offset>>
vars == <<_filters, _select_columns, _order_by, _limit, _offset, last_call, sent, reply, result>>

----------------------------------------------------------------------------
(* Bounds of the exploration *)

MaxFilters == 2
MaxOrder == 1
MaxRows == 2

----------------------------------------------------------------------------
(* Python values *)

None == [type |-> "NoneType"]
PyInt(n) == [type |-> "int", val |-> n]
PyList(s) == [type |-> "list", items |-> s]
PyTuple(s) == [type |-> "tuple", items |-> s]
\* a dict keeps its keys in insertion order: a sequence of <<key, value>>
PyDict(s) == [type |-> "dict", items |-> s]
Self == [type |-> "Table"]

Keys(d) == [i \in 1..Len(d.items) |-> d.items[i][1]]
Values(d) == [i \in 1..Len(d.items) |-> d.items[i][2]]
HasKey(d, k) == \E i \in 1..Len(d.items) : d.items[i][1] = k
Get(d, k) == d.items[CHOOSE i \in 1..Len(d.items) : d.items[i][1] = k][2]

Returns(v) == [kind |-> "return", val |-> v]
Raises(e) == [kind |-> "raise", exc |-> e]

\* tuple(values): an iterable becomes a tuple of its items
IsIterable(v) == v.type \in {"list", "tuple"}

----------------------------------------------------------------------------
(* psycopg2.sql composition, token by token *)

Identifier(name) == "\"" \o name \o "\""
Placeholder == "%s"

RECURSIVE Concat(_)
Concat(parts) ==
    IF parts = <<>> THEN <<>> ELSE Head(parts) \o Concat(Tail(parts))

\* sql.SQL(sep).join(parts)
RECURSIVE Join(_, _)
Join(sep, parts) ==
    IF parts = <<>> THEN <<>>
    ELSE IF Len(parts) = 1 THEN Head(parts)
    ELSE Head(parts) \o sep \o Join(sep, Tail(parts))

\* sql.Placeholder() * n, as the parts of a join
Placeholders(n) == [i \in 1..n |-> <<Placeholder>>]

\* the builder of the unqualified relation t: no schema
table == [schema |-> "", table_name |-> "t"]

_get_table_identifier ==
    IF table.schema # ""
    THEN <<Identifier(table.schema), ".", Identifier(table.table_name)>>
    ELSE <<Identifier(table.table_name)>>

\* Condition with a fault: an IN list bound to a single placeholder
Condition_in_as_one(f) ==
    IF f.operator \in {"IN", "NOT IN"}
    THEN <<Identifier(f.column), f.operator, Placeholder>>
    ELSE IF f.value = None /\ f.operator \in {"IS", "IS NOT"}
    THEN <<Identifier(f.column), f.operator, "NULL">>
    ELSE <<Identifier(f.column), f.operator, Placeholder>>

Condition(f) ==
    IF f.operator \in {"IN", "NOT IN"}
    THEN <<Identifier(f.column), f.operator, "(">>
         \o Join(<<",">>, Placeholders(Len(f.value.items))) \o <<")">>
    ELSE IF f.value = None /\ f.operator \in {"IS", "IS NOT"}
    THEN <<Identifier(f.column), f.operator, "NULL">>
    ELSE <<Identifier(f.column), f.operator, Placeholder>>

_build_where_clause(filters) ==
    IF filters = <<>> THEN <<>>
    ELSE <<"WHERE">>
         \o Join(<<"AND">>, [i \in 1..Len(filters) |-> Condition(filters[i])])

_build_order_by_clause(order_by) ==
    IF order_by = <<>> THEN <<>>
    ELSE <<"ORDER BY">>
         \o Join(<<",">>, [i \in 1..Len(order_by) |->
                             <<Identifier(order_by[i][1]), order_by[i][2]>>])

_build_limit_clause(limit) ==
    IF limit # None THEN <<"LIMIT", Placeholder>> ELSE <<>>

_build_offset_clause(offset) ==
    IF offset # None THEN <<"OFFSET", Placeholder>> ELSE <<>>

FilterValue(f) ==
    IF f.operator \in {"IN", "NOT IN"} THEN f.value.items
    ELSE IF f.value # None \/ f.operator \notin {"IS", "IS NOT"} THEN <<f.value>>
    ELSE <<>>

_get_filter_values(filters) ==
    Concat([i \in 1..Len(filters) |-> FilterValue(filters[i])])

----------------------------------------------------------------------------
(* The driver: cur.execute either succeeds, and the cursor then holds the   *)
(* rows, or is cancelled by the statement timeout                           *)
(* (psycopg2.errors.QueryCanceled), or fails otherwise.                     *)

Ok(rows) == [status |-> "ok", rows |-> rows]
Failed(e) == [status |-> e, rows |-> <<>>]
NoReply == [status |-> "none", rows |-> <<>>]

Statement(query, params) == [query |-> query, params |-> params]

\* a call that ends without reaching the driver
Local(outcome) ==
    /\ result' = outcome
    /\ sent' = <<>>
    /\ reply' = NoReply

----------------------------------------------------------------------------
(* Construction *)

Init ==
    /\ _filters = <<>>
    /\ _select_columns = <<"*">>
    /\ _order_by = <<>>
    /\ _limit = None
    /\ _offset = None
    /\ last_call = [op |-> "__init__"]
    /\ sent = <<>>
    /\ reply = NoReply
    /\ result = Returns(Self)

----------------------------------------------------------------------------
(* Filter methods *)

_add_filter(column, operator, value) ==
    /\ _filters' = Append(_filters, [column |-> column, operator |-> operator, value |-> value])
    /\ Local(Returns(Self))
    /\ UNCHANGED <<_select_columns, _order_by, _limit, _offset>>

eq(column, value) ==
    /\ last_call' = [op |-> "eq", column |-> column, value |-> value]
    /\ _add_filter(column, "=", value)

neq(column, value) ==
    /\ last_call' = [op |-> "neq", column |-> column, value |-> value]
    /\ _add_filter(column, "!=", value)

gt(column, value) ==
    /\ last_call' = [op |-> "gt", column |-> column, value |-> value]
    /\ _add_filter(column, ">", value)

gte(column, value) ==
    /\ last_call' = [op |-> "gte", column |-> column, value |-> value]
    /\ _add_filter(column, ">=", value)

lt(column, value) ==
    /\ last_call' = [op |-> "lt", column |-> column, value |-> value]
    /\ _add_filter(column, "<", value)

lte(column, value) ==
    /\ last_call' = [op |-> "lte", column |-> column, value |-> value]
    /\ _add_filter(column, "<=", value)

like(column, pattern) ==
    /\ last_call' = [op |-> "like", column |-> column, value |-> pattern]
    /\ _add_filter(column, "LIKE", pattern)

ilike(column, pattern) ==
    /\ last_call' = [op |-> "ilike", column |-> column, value |-> pattern]
    /\ _add_filter(column, "ILIKE", pattern)

\* tuple(values) raises TypeError for a value that is not iterable
in_(column, values) ==
    /\ last_call' = [op |-> "in_", column |-> column, value |-> values]
    /\ IF IsIterable(values)
       THEN _add_filter(column, "IN", PyTuple(values.items))
       ELSE /\ Local(Raises("TypeError"))
            /\ UNCHANGED builder

not_in(column, values) ==
    /\ last_call' = [op |-> "not_in", column |-> column, value |-> values]
    /\ IF IsIterable(values)
       THEN _add_filter(column, "NOT IN", PyTuple(values.items))
       ELSE /\ Local(Raises("TypeError"))
            /\ UNCHANGED builder

is_null(column) ==
    /\ last_call' = [op |-> "is_null", column |-> column, value |-> None]
    /\ _add_filter(column, "IS", None)

is_not_null(column) ==
    /\ last_call' = [op |-> "is_not_null", column |-> column, value |-> None]
    /\ _add_filter(column, "IS NOT", None)

----------------------------------------------------------------------------
(* Projection, ordering, pagination *)

\* select with a fault: choosing a projection drops the filters
select_restarting(columns) ==
    /\ last_call' = [op |-> "select", columns |-> columns]
    /\ _select_columns' = IF columns # <<>> THEN columns ELSE <<"*">>
    /\ _filters' = <<>>
    /\ Local(Returns(Self))
    /\ UNCHANGED <<_order_by, _limit, _offset>>

\* select(*columns): columns is the tuple of positional arguments
select(columns) ==
    /\ last_call' = [op |-> "select", columns |-> columns]
    /\ _select_columns' = IF columns # <<>> THEN columns ELSE <<"*">>
    /\ Local(Returns(Self))
    /\ UNCHANGED <<_filters, _order_by, _limit, _offset>>

order(column, ascending) ==
    /\ last_call' = [op |-> "order", column |-> column, ascending |-> ascending]
    /\ _order_by' = Append(_order_by, <<column, IF ascending THEN "ASC" ELSE "DESC">>)
    /\ Local(Returns(Self))
    /\ UNCHANGED <<_filters, _select_columns, _limit, _offset>>

limit(n) ==
    /\ last_call' = [op |-> "limit", limit |-> n]
    /\ _limit' = n
    /\ Local(Returns(Self))
    /\ UNCHANGED <<_filters, _select_columns, _order_by, _offset>>

offset(n) ==
    /\ last_call' = [op |-> "offset", offset |-> n]
    /\ _offset' = n
    /\ Local(Returns(Self))
    /\ UNCHANGED <<_filters, _select_columns, _order_by, _limit>>

----------------------------------------------------------------------------
(* Terminal operations *)

\* with self.conn.cursor(...) as cur: cur.execute(query, params); return cur.fetchall()
\* No except clause: whatever the driver raises reaches the caller.
Run(query, params, r) ==
    /\ sent' = <<Statement(query, params)>>
    /\ reply' = r
    /\ result' = IF r.status = "ok" THEN Returns(PyList(r.rows)) ELSE Raises(r.status)

\* ExecuteParams with a fault: the offset appended before the limit
ExecuteParams_offset_first(filters, lim, off) ==
    _get_filter_values(filters)
    \o (IF off # None THEN <<off>> ELSE <<>>)
    \o (IF lim # None THEN <<lim>> ELSE <<>>)

ExecuteParams(filters, lim, off) ==
    _get_filter_values(filters)
    \o (IF lim # None THEN <<lim>> ELSE <<>>)
    \o (IF off # None THEN <<off>> ELSE <<>>)

ExecuteQuery(columns, filters, order_by, lim, off) ==
    <<"SELECT">>
    \o (IF columns = <<"*">> THEN <<"*">>
        ELSE Join(<<",">>, [i \in 1..Len(columns) |-> <<Identifier(columns[i])>>]))
    \o <<"FROM">>
    \o _get_table_identifier
    \o _build_where_clause(filters)
    \o _build_order_by_clause(order_by)
    \o _build_limit_clause(lim)
    \o _build_offset_clause(off)

\* execute with a fault: the builder is cleared once the statement is compiled
execute_clearing(r) ==
    /\ last_call' = [op |-> "execute"]
    /\ sent' = <<Statement(ExecuteQuery(_select_columns, _filters, _order_by, _limit, _offset),
                           _get_filter_values(_filters)
                           \o (IF _limit # None THEN <<_limit>> ELSE <<>>)
                           \o (IF _offset # None THEN <<_offset>> ELSE <<>>))>>
    /\ reply' = r
    /\ result' = IF r.status = "ok" THEN Returns(PyList(r.rows))
                 ELSE IF r.status = "QueryCanceled" THEN Raises("TimeoutError")
                 ELSE Raises(r.status)
    /\ _filters' = <<>>
    /\ _limit' = None
    /\ _offset' = None
    /\ UNCHANGED <<_select_columns, _order_by>>

\* except psycopg2.errors.QueryCanceled: raise TimeoutError(...)
execute(r) ==
    /\ last_call' = [op |-> "execute"]
    /\ sent' = <<Statement(ExecuteQuery(_select_columns, _filters, _order_by, _limit, _offset),
                           ExecuteParams(_filters, _limit, _offset))>>
    /\ reply' = r
    /\ result' = IF r.status = "ok" THEN Returns(PyList(r.rows))
                 ELSE IF r.status = "QueryCanceled" THEN Raises("TimeoutError")
                 ELSE Raises(r.status)
    /\ UNCHANGED builder

\* data: a dict, or a list of dicts
AsRows(data) == IF data.type = "dict" THEN <<data>> ELSE data.items

\* RowValues with a fault: each row's values in that row's own key order
RowValues_own_order(columns, row) == Values(row)

\* [[row[col] for col in columns] for row in data]
RowValues(columns, row) == [j \in 1..Len(columns) |-> Get(row, columns[j])]

InsertParams(columns, rows) ==
    [i \in 1..Len(rows) |-> PyTuple(RowValues(columns, rows[i]))]

InsertQuery(columns, rows) ==
    <<"INSERT INTO">> \o _get_table_identifier
    \o <<"(">> \o Join(<<",">>, [j \in 1..Len(columns) |-> <<Identifier(columns[j])>>])
    \o <<")", "VALUES">> \o Join(<<",">>, Placeholders(Len(rows)))

\* data[0] raises IndexError on an empty list, row[col] raises KeyError on a
\* row that lacks a key of the first row
insert(data, r) ==
    /\ last_call' = [op |-> "insert", data |-> data]
    /\ LET rows == AsRows(data)
       IN IF rows = <<>> THEN Local(Raises("IndexError"))
          ELSE LET columns == Keys(rows[1])
               IN IF \E i \in 1..Len(rows) : \E j \in 1..Len(columns) :
                         ~HasKey(rows[i], columns[j])
                  THEN Local(Raises("KeyError"))
                  ELSE Run(InsertQuery(columns, rows) \o <<"RETURNING", "*">>,
                           InsertParams(columns, rows), r)
    /\ UNCHANGED builder

UpsertQuery(columns, rows, conflict_columns) ==
    LET update_columns == SelectSeq(columns,
                              LAMBDA c : \A k \in 1..Len(conflict_columns) :
                                            conflict_columns[k] # c)
    IN InsertQuery(columns, rows)
       \o <<"ON CONFLICT", "(">>
       \o Join(<<",">>, [k \in 1..Len(conflict_columns) |->
                           <<Identifier(conflict_columns[k])>>])
       \o <<")", "DO UPDATE SET">>
       \o Join(<<",">>, [k \in 1..Len(update_columns) |->
                           <<Identifier(update_columns[k]), "=", "EXCLUDED", ".",
                             Identifier(update_columns[k])>>])

upsert(data, conflict_columns, r) ==
    /\ last_call' = [op |-> "upsert", data |-> data, conflict_columns |-> conflict_columns]
    /\ LET rows == AsRows(data)
       IN IF rows = <<>> THEN Local(Raises("IndexError"))
          ELSE LET columns == Keys(rows[1])
               IN IF \E i \in 1..Len(rows) : \E j \in 1..Len(columns) :
                         ~HasKey(rows[i], columns[j])
                  THEN Local(Raises("KeyError"))
                  ELSE Run(UpsertQuery(columns, rows, conflict_columns)
                             \o <<"RETURNING", "*">>,
                           InsertParams(columns, rows), r)
    /\ UNCHANGED builder

UpdateQuery(data, filters) ==
    <<"UPDATE">> \o _get_table_identifier \o <<"SET">>
    \o Join(<<",">>, [k \in 1..Len(data.items) |->
                        <<Identifier(Keys(data)[k]), "=", Placeholder>>])
    \o _build_where_clause(filters)
    \o <<"RETURNING", "*">>

UpdateParams(data, filters) == Values(data) \o _get_filter_values(filters)

update(data, r) ==
    /\ last_call' = [op |-> "update", data |-> data]
    /\ Run(UpdateQuery(data, _filters), UpdateParams(data, _filters), r)
    /\ UNCHANGED builder

delete(r) ==
    /\ last_call' = [op |-> "delete"]
    /\ Run(<<"DELETE FROM">> \o _get_table_identifier
             \o _build_where_clause(_filters) \o <<"RETURNING", "*">>,
           _get_filter_values(_filters), r)
    /\ UNCHANGED builder

----------------------------------------------------------------------------
(* RPC.call *)

\* result = cur.fetchone(): the first row, or None when there is none
fetchone(rows) == IF rows = <<>> THEN None ELSE rows[1]

\* a row (RealDictRow) is true when it has a column
Truthy(v) == v.type = "dict" /\ v.items # <<>>

\* return result[procedure] if result else None
CallReturn(procedure, fetched) ==
    IF Truthy(fetched) THEN Get(fetched, procedure) ELSE None

CallQuery(procedure, params) ==
    <<"SELECT", Identifier(procedure), "(">>
    \o Join(<<",">>, [k \in 1..Len(params.items) |->
                        <<Identifier(Keys(params)[k]), ":=", Placeholder>>])
    \o <<")">>

\* params = params or {}: None and the empty dict both give {}
rpc_call(procedure, params, r) ==
    /\ last_call' = [op |-> "call", procedure |-> procedure, params |-> params]
    /\ LET ps == IF params = None \/ params.items = <<>> THEN PyDict(<<>>) ELSE params
       IN /\ sent' = <<Statement(CallQuery(procedure, ps), Values(ps))>>
          /\ reply' = r
          /\ result' = IF r.status = "ok"
                       THEN Returns(CallReturn(procedure, fetchone(r.rows)))
                       ELSE Raises(r.status)
    /\ UNCHANGED builder

----------------------------------------------------------------------------
(* Inputs *)

Columns == {"a", "b"}
Operands == {PyInt(1), None}
\* lists for in_/not_in, and an int, which is not iterable
InOperands == {PyList(<<>>), PyList(<<PyInt(1), PyInt(2)>>), PyList(<<PyInt(2), PyInt(1)>>),
               PyInt(1)}

FilterCall(columns, operands, inOperands) ==
    \E c \in columns :
        \/ \E v \in operands :
              \/ eq(c, v)
              \/ neq(c, v)
              \/ gt(c, v)
              \/ gte(c, v)
              \/ lt(c, v)
              \/ lte(c, v)
              \/ like(c, v)
              \/ ilike(c, v)
        \/ \E vs \in inOperands :
              \/ in_(c, vs)
              \/ not_in(c, vs)
        \/ is_null(c)
        \/ is_not_null(c)

\* the driver's answers to a statement of Table: no row is looked at
Replies == {Ok(<<>>), Failed("QueryCanceled"), Failed("IntegrityError")}

\* the driver's answers to SELECT proc(...): no row, a row holding NULL, a row
\* holding a value; the column is named after the procedure
CallReplies(procedure) ==
    {Ok(<<>>), Ok(<<PyDict(<<<<procedure, None>>>>)>>), Ok(<<PyDict(<<<<procedure, PyInt(1)>>>>)>>),
     Failed("QueryCanceled"), Failed("IntegrityError")}

\* dicts over the keys a, b
Dicts ==
    {PyDict(<<>>),
     PyDict(<<<<"a", PyInt(1)>>>>),
     PyDict(<<<<"a", PyInt(1)>>, <<"b", PyInt(2)>>>>),
     PyDict(<<<<"b", PyInt(4)>>, <<"a", PyInt(3)>>>>),
     PyDict(<<<<"a", PyInt(3)>>, <<"b", PyInt(4)>>>>)}

RECURSIVE SeqsUpTo(_, _)
SeqsUpTo(S, n) ==
    IF n = 0 THEN {<<>>}
    ELSE LET shorter == SeqsUpTo(S, n - 1)
         IN shorter \cup {Append(s, x) : s \in shorter, x \in S}

\* a single dict, or a list of at most MaxRows dicts
Payloads == Dicts \cup {PyList(s) : s \in SeqsUpTo(Dicts, MaxRows)}

----------------------------------------------------------------------------
(* The filter ledger and the WHERE clause compiled from it *)

NextWhere ==
    \/ /\ Len(_filters) < MaxFilters
       /\ FilterCall(Columns, Operands, InOperands)
    \/ \E r \in Replies : delete(r)

SpecWhere == Init /\ [][NextWhere]_vars

----------------------------------------------------------------------------
(* Chained builder calls *)

Next ==
    \/ /\ Len(_filters) < MaxFilters
       /\ FilterCall({"a"}, {PyInt(1)}, {PyList(<<PyInt(1), PyInt(2)>>)})
    \/ \E cs \in {<<>>, <<"a">>, <<"a", "b">>} : select(cs)
    \/ /\ Len(_order_by) < MaxOrder
       /\ \E c \in {"c"}, asc \in BOOLEAN : order(c, asc)
    \/ \E n \in {PyInt(1), PyInt(2)} : limit(n)
    \/ \E n \in {PyInt(1), PyInt(2)} : offset(n)

Spec == Init /\ [][Next]_vars

----------------------------------------------------------------------------
(* A configured builder and every terminal operation *)

NextTerminal ==
    \/ /\ Len(_filters) < MaxFilters
       /\ \/ eq("a", PyInt(1))
          \/ gt("b", PyInt(5))
          \/ in_("a", PyList(<<PyInt(1), PyInt(2)>>))
          \/ is_null("b")
    \/ select(<<"a", "b">>)
    \/ /\ Len(_order_by) < MaxOrder
       /\ order("c", FALSE)
    \/ \E n \in {PyInt(3), PyInt(10)} : limit(n)
    \/ offset(PyInt(5))
    \/ \E r \in Replies : execute(r)
    \/ \E r \in Replies : delete(r)
    \/ \E r \in Replies, d \in {PyDict(<<>>),
                                PyDict(<<<<"b", PyInt(4)>>, <<"a", PyInt(3)>>>>)} : update(d, r)
    \/ \E r \in Replies : insert(PyDict(<<<<"a", PyInt(1)>>>>), r)
    \/ \E r \in Replies : upsert(PyDict(<<<<"a", PyInt(1)>>>>), <<"a">>, r)
    \/ \E r \in {Ok(<<>>), Failed("QueryCanceled"), Failed("IntegrityError")} :
          rpc_call("f", None, r)

SpecTerminal == Init /\ [][NextTerminal]_vars

----------------------------------------------------------------------------
(* Payloads: insert, upsert, update and RPC.call on a fresh builder *)

NextPayload ==
    \/ \E d \in Payloads, r \in Replies : insert(d, r)
    \/ \E d \in Payloads, cc \in {<<"a">>, <<"a", "b">>}, r \in Replies : upsert(d, cc, r)
    \/ \E d \in Dicts, r \in Replies : update(d, r)
    \/ \E p \in {None, PyDict(<<>>), PyDict(<<<<"x", PyInt(1)>>, <<"y", PyInt(2)>>>>)} :
          \E r \in CallReplies("f") : rpc_call("f", p, r)

SpecPayload == Init /\ [][NextPayload]_vars

----------------------------------------------------------------------------
(* Reading a compiled statement *)

CountPlaceholders(tokens) ==
    Cardinality({i \in DOMAIN tokens : tokens[i] = Placeholder})

Rep(x, n) == [i \in 1..n |-> x]

\* the pieces of tokens between the occurrences of sep
RECURSIVE SplitOn(_, _)
SplitOn(tokens, sep) ==
    IF \A i \in DOMAIN tokens : tokens[i] # sep THEN <<tokens>>
    ELSE LET i == CHOOSE k \in DOMAIN tokens :
                      tokens[k] = sep /\ \A m \in 1..(k - 1) : tokens[m] # sep
         IN <<SubSeq(tokens, 1, i - 1)>> \o SplitOn(SubSeq(tokens, i + 1, Len(tokens)), sep)

\* for each placeholder, in text order, the clause keyword it stands under
RECURSIVE StagesFrom(_, _)
StagesFrom(tokens, stage) ==
    IF tokens = <<>> THEN <<>>
    ELSE IF Head(tokens) \in {"SET", "WHERE", "LIMIT", "OFFSET"}
    THEN StagesFrom(Tail(tokens), Head(tokens))
    ELSE IF Head(tokens) = Placeholder
    THEN <<stage>> \o StagesFrom(Tail(tokens), stage)
    ELSE StagesFrom(Tail(tokens), stage)

Stages(tokens) == StagesFrom(tokens, "")

Clauses(tokens) ==
    SelectSeq(tokens, LAMBDA t : t \in {"SET", "WHERE", "ORDER BY", "LIMIT", "OFFSET"})

Opt(present, x) == IF present THEN <<x>> ELSE <<>>

KeySet(d) == {d.items[i][1] : i \in 1..Len(d.items)}

\* what one ledger entry is to contribute to the parameter list
EntryParams(f) ==
    IF f.operator \in {"IN", "NOT IN"} THEN f.value.items
    ELSE IF f.operator \in {"IS", "IS NOT"} /\ f.value = None THEN <<>>
    ELSE <<f.value>>

WhereParams(filters) == Concat([i \in 1..Len(filters) |-> EntryParams(filters[i])])

----------------------------------------------------------------------------
(* C1: in every state reached by filter calls the WHERE fragment renders    *)
(* the ledger's entries in call order joined by AND, entry i holds as many  *)
(* placeholders as it contributes parameters (N for an IN/NOT IN operand of *)
(* length N, 0 for IS/IS NOT with null, 1 otherwise), the flattened values  *)
(* are those contributions in order, and so the number of placeholders      *)
(* equals the number of values; the statement delete hands to the driver    *)
(* has the same property.                                                   *)
C1_WherePlaceholdersMatchValues ==
    LET fragment == _build_where_clause(_filters)
        values == _get_filter_values(_filters)
        entries == IF fragment = <<>> THEN <<>> ELSE SplitOn(Tail(fragment), "AND")
    IN /\ (fragment # <<>>) => Head(fragment) = "WHERE"
       /\ Len(entries) = Len(_filters)
       /\ \A i \in 1..Len(_filters) :
             /\ entries[i][1] = Identifier(_filters[i].column)
             /\ entries[i][2] = _filters[i].operator
             /\ CountPlaceholders(entries[i]) = Len(EntryParams(_filters[i]))
       /\ values = WhereParams(_filters)
       /\ CountPlaceholders(fragment) = Len(values)
       /\ (last_call.op = "delete") =>
             /\ sent[1].params = values
             /\ CountPlaceholders(sent[1].query) = Len(sent[1].params)

C1_Witness ==
    /\ last_call.op = "delete"
    /\ Len(_filters) = 2
    /\ _filters[1].operator = "IN" /\ Len(_filters[1].value.items) = 2
    /\ _filters[2].operator = "IS NOT"
    /\ sent[1].params = <<PyInt(2), PyInt(1)>>

(* C6: a filter call whose operand does not fit its operator fails with     *)
(* InvalidFilterError at the call and leaves the ledger as it was, so every *)
(* IN/NOT IN entry of the ledger has a non-empty sequence operand and every *)
(* IS/IS NOT entry has the null marker.                                     *)
C6_OperandShapeChecked ==
    /\ \A i \in 1..Len(_filters) :
          /\ _filters[i].operator \in {"IN", "NOT IN"} =>
                _filters[i].value.type = "tuple" /\ _filters[i].value.items # <<>>
          /\ _filters[i].operator \in {"IS", "IS NOT"} => _filters[i].value = None
    /\ (/\ last_call.op \in {"in_", "not_in"}
        /\ ~(IsIterable(last_call.value) /\ last_call.value.items # <<>>))
          => result = Raises("InvalidFilterError")

----------------------------------------------------------------------------
FilterOperator(op) ==
    CASE op = "eq" -> "="
      [] op = "neq" -> "!="
      [] op = "gt" -> ">"
      [] op = "gte" -> ">="
      [] op = "lt" -> "<"
      [] op = "lte" -> "<="
      [] op = "like" -> "LIKE"
      [] op = "ilike" -> "ILIKE"
      [] op = "in_" -> "IN"
      [] op = "not_in" -> "NOT IN"
      [] op = "is_null" -> "IS"
      [] op = "is_not_null" -> "IS NOT"

FilterMethods == {"eq", "neq", "gt", "gte", "lt", "lte", "like", "ilike",
                  "in_", "not_in", "is_null", "is_not_null"}

C3_Step ==
    LET c == last_call'
    IN /\ c.op \in FilterMethods =>
             /\ _filters' = Append(_filters,
                                   [column |-> c.column,
                                    operator |-> FilterOperator(c.op),
                                    value |-> IF c.op \in {"in_", "not_in"}
                                              THEN PyTuple(c.value.items) ELSE c.value])
             /\ UNCHANGED <<_select_columns, _order_by, _limit, _offset>>
       /\ c.op = "order" =>
             /\ _order_by' = Append(_order_by,
                                    <<c.column, IF c.ascending THEN "ASC" ELSE "DESC">>)
             /\ UNCHANGED <<_filters, _select_columns, _limit, _offset>>
       /\ c.op = "select" =>
             /\ _select_columns' = IF c.columns = <<>> THEN <<"*">> ELSE c.columns
             /\ UNCHANGED <<_filters, _order_by, _limit, _offset>>
       /\ c.op = "limit" =>
             /\ _limit' = c.limit
             /\ UNCHANGED <<_filters, _select_columns, _order_by, _offset>>
       /\ c.op = "offset" =>
             /\ _offset' = c.offset
             /\ UNCHANGED <<_filters, _select_columns, _order_by, _limit>>

----------------------------------------------------------------------------
(* C2: the parameters of a compiled statement come in the order of its      *)
(* placeholders: execute sends the WHERE parameters, then the limit if set, *)
(* then the offset if set, with the clauses in the order WHERE, ORDER BY,   *)
(* LIMIT, OFFSET; update sends the SET values in the data's key order, then *)
(* the WHERE parameters; delete sends the WHERE parameters only, and with   *)
(* no filter it has no WHERE clause and no parameter.  limit=10, offset=5   *)
(* without filters gives [10, 5]; eq(a,1), gt(b,5), order(c, DESC),         *)
(* limit(3) gives [1, 5, 3].                                                *)
C2_ParamsFollowPlaceholders ==
    LET W == WhereParams(_filters)
        s == sent[1]
    IN /\ (last_call.op = "execute") =>
             /\ s.params = W \o Opt(_limit # None, _limit) \o Opt(_offset # None, _offset)
             /\ Stages(s.query) = Rep("WHERE", Len(W)) \o Opt(_limit # None, "LIMIT")
                                    \o Opt(_offset # None, "OFFSET")
             /\ Clauses(s.query) = Opt(_filters # <<>>, "WHERE")
                                     \o Opt(_order_by # <<>>, "ORDER BY")
                                     \o Opt(_limit # None, "LIMIT")
                                     \o Opt(_offset # None, "OFFSET")
             /\ (_filters = <<>> /\ _limit = PyInt(10) /\ _offset = PyInt(5))
                   => s.params = <<PyInt(10), PyInt(5)>>
             /\ (/\ _filters = <<[column |-> "a", operator |-> "=", value |-> PyInt(1)],
                                 [column |-> "b", operator |-> ">", value |-> PyInt(5)]>>
                 /\ _order_by = <<<<"c", "DESC">>>>
                 /\ _limit = PyInt(3) /\ _offset = None)
                   => /\ s.params = <<PyInt(1), PyInt(5), PyInt(3)>>
                      /\ SubSeq(s.query, Len(s.query) - 12, Len(s.query)) =
                            <<"WHERE", "\"a\"", "=", "%s", "AND", "\"b\"", ">", "%s",
                              "ORDER BY", "\"c\"", "DESC", "LIMIT", "%s">>
       /\ (last_call.op = "update") =>
             /\ s.params = Values(last_call.data) \o W
             /\ Stages(s.query) = Rep("SET", Len(last_call.data.items)) \o Rep("WHERE", Len(W))
       /\ (last_call.op = "delete") =>
             /\ s.params = W
             /\ Stages(s.query) = Rep("WHERE", Len(W))
             /\ (_filters = <<>>) =>
                   s.query = <<"DELETE FROM", "\"t\"", "RETURNING", "*">> /\ s.params = <<>>

C2_Witness ==
    /\ last_call.op = "execute"
    /\ _filters = <<[column |-> "a", operator |-> "=", value |-> PyInt(1)],
                    [column |-> "b", operator |-> ">", value |-> PyInt(5)]>>
    /\ _order_by = <<<<"c", "DESC">>>>
    /\ _limit = PyInt(3) /\ _offset = None
    /\ sent[1].params = <<PyInt(1), PyInt(5), PyInt(3)>>

(* C5: execute, update and delete leave the builder's filters, projection,  *)
(* ordering, limit and offset as they were, and the same terminal call made *)
(* again hands the driver the same statement text and parameters.           *)
C5_TerminalLeavesBuilder ==
    [][last_call'.op \in {"execute", "update", "delete"} =>
          /\ builder' = builder
          /\ (last_call' = last_call) => sent' = sent]_vars

C5_Witness ==
    /\ last_call.op = "execute"
    /\ reply.status = "QueryCanceled"
    /\ Len(_filters) = 2 /\ _limit # None /\ _offset # None
    /\ Len(sent[1].params) = Len(WhereParams(_filters)) + 2

(* C9: whenever the driver cancels the statement of a terminal operation    *)
(* for its timeout the caller gets TimeoutError, and every other failure of *)
(* the driver reaches the caller as it is.                                  *)
C9_TimeoutIsUniform ==
    /\ (reply.status = "QueryCanceled") => result = Raises("TimeoutError")
    /\ (reply.status \notin {"none", "ok", "QueryCanceled"}) => result = Raises(reply.status)

----------------------------------------------------------------------------
SameKeys(rows) == \A i \in 1..Len(rows) : KeySet(rows[i]) = KeySet(rows[1])

\* the tokens after VALUES and before RETURNING
ValuesPart(query) ==
    LET v == CHOOSE k \in DOMAIN query : query[k] = "VALUES"
        e == CHOOSE k \in DOMAIN query : query[k] = "RETURNING"
    IN SubSeq(query, v + 1, e - 1)

C7_EmptyPayloadRejected ==
    (\/ last_call.op = "update" /\ last_call.data.items = <<>>
     \/ last_call.op \in {"insert", "upsert"} /\ AsRows(last_call.data) = <<>>)
       => result = Raises("EmptyPayloadError") /\ sent = <<>>

(* C8: an insert or upsert whose rows do not all have the key set of the    *)
(* first row fails with SchemaMismatchError and hands nothing to the        *)
(* driver, whether a later row lacks a key or carries one more.             *)
C8_DivergentRowsRejected ==
    (/\ last_call.op \in {"insert", "upsert"}
     /\ AsRows(last_call.data) # <<>>
     /\ ~SameKeys(AsRows(last_call.data)))
       => result = Raises("SchemaMismatchError") /\ sent = <<>>

(* C10: call returns the value of the column named after the procedure,     *)
(* and what it returns when the driver has no row differs from what it      *)
(* returns for a row holding null.                                          *)
C10_NoRowDistinctFromNull ==
    (last_call.op = "call" /\ reply.status = "ok") =>
        /\ (reply.rows # <<>>) => result = Returns(Get(reply.rows[1], last_call.procedure))
        /\ (reply.rows = <<>>) =>
              result # Returns(CallReturn(last_call.procedure,
                                          PyDict(<<<<last_call.procedure, None>>>>)))

====
